---- MODULE Spec2Model ----
(***************************************************************************)
(* A model of tools/combine_code.py: the notebook extractor, the text      *)
(* classifier and the archive writer that walks the project tree.          *)
(*                                                                         *)
(* Text is a sequence of code points (naturals), bytes are naturals in     *)
(* 0..255, a path is a sequence of names and a name is text.               *)
(***************************************************************************)
EXTENDS Integers, Sequences, FiniteSets, TLC

VARIABLES
    fs,          \* the project tree: file path (sequence of names) -> file
    pc,          \* position of combine_project_files
    run,         \* number of the current invocation of the tool
    stack,       \* os.walk: directories still to be visited, next one first
    dirpath,     \* os.walk: the directory whose files are being iterated
    todo,        \* sorted(filenames) not yet iterated in dirpath
    outfile,     \* the chunks successfully written to the output stream
    log,         \* the lines printed to the console
    files_processed_count,
    files_skipped_count,
    faults,      \* I/O failures the environment has injected so far
    hist,        \* history of the run: files yielded, opened, failed
    prev,        \* section paths of the previous completed invocations
    input,       \* argument of a function exercised on its own
    result       \* its result

vars == <<fs, pc, run, stack, dirpath, todo, outfile, log,
          files_processed_count, files_skipped_count, faults, hist, prev,
          input, result>>

runVars == <<fs, pc, run, stack, dirpath, todo, outfile, log,
             files_processed_count, files_skipped_count, faults, hist, prev>>

-----------------------------------------------------------------------------
(* Bounds of the model.                                                    *)

MaxFaults == 1
MaxRuns == 2
MaxCells == 3
MaxFiles == 2
MaxDepth == 2

-----------------------------------------------------------------------------
(* Text.                                                                   *)

\* The printable ASCII characters from code point 32 and from code point 97.
PrintableLow ==
    " !\"#$%&'()*+,-./0123456789:;<=>?@ABCDEFGHIJKLMNOPQRSTUVWXYZ[\\]^_"
PrintableHigh == "abcdefghijklmnopqrstuvwxyz{|}~"

Ord(c) ==
    LET lo == {k \in 1..Len(PrintableLow) : SubSeq(PrintableLow, k, k) = c}
        hi == {k \in 1..Len(PrintableHigh) : SubSeq(PrintableHigh, k, k) = c}
    IN  IF lo # {} THEN 31 + (CHOOSE k \in lo : TRUE)
        ELSE 96 + (CHOOSE k \in hi : TRUE)

\* The code points of a string literal of printable ASCII characters.
S(str) == [i \in 1..Len(str) |-> Ord(SubSeq(str, i, i))]

Range(s) == {s[i] : i \in DOMAIN s}

SetMin(X) == CHOOSE x \in X : \A y \in X : x <= y
SetMax(X) == CHOOSE x \in X : \A y \in X : y <= x

\* str.isspace() on one character, for the code points below 128.
IsSpace(c) == c \in (9..13) \cup (28..32)

\* str.strip()
strip(s) ==
    LET keep == {i \in DOMAIN s : ~IsSpace(s[i])}
    IN  IF keep = {} THEN <<>> ELSE SubSeq(s, SetMin(keep), SetMax(keep))

\* str.lower(), for the code points below 128.
lower(s) == [i \in DOMAIN s |-> IF s[i] \in 65..90 THEN s[i] + 32 ELSE s[i]]

\* str.endswith(p)
endswith(s, p) ==
    /\ Len(p) <= Len(s)
    /\ SubSeq(s, Len(s) - Len(p) + 1, Len(s)) = p

\* The order of str: by code point, a proper prefix first.
RECURSIVE StrLess(_, _)
StrLess(a, b) ==
    IF b = <<>> THEN FALSE
    ELSE IF a = <<>> THEN TRUE
    ELSE IF Head(a) # Head(b) THEN Head(a) < Head(b)
    ELSE StrLess(Tail(a), Tail(b))

RECURSIVE insert(_, _)
insert(x, s) ==
    IF s = <<>> THEN <<x>>
    ELSE IF StrLess(x, Head(s)) THEN <<x>> \o s
    ELSE <<Head(s)>> \o insert(x, Tail(s))

\* sorted(list) of a list of str.
RECURSIVE sorted(_)
sorted(s) == IF s = <<>> THEN <<>> ELSE insert(Head(s), sorted(Tail(s)))

\* str(n) of a natural number.
RECURSIVE Dec(_)
Dec(n) == IF n < 10 THEN <<48 + n>> ELSE Dec(n \div 10) \o <<48 + (n % 10)>>

\* sep.join(parts)
RECURSIVE join(_, _)
join(sep, parts) ==
    IF parts = <<>> THEN <<>>
    ELSE IF Len(parts) = 1 THEN parts[1]
    ELSE parts[1] \o sep \o join(sep, Tail(parts))

\* PurePath.suffix of a path whose final component is name.
suffix(name) ==
    LET dots == {i \in DOMAIN name : name[i] = 46}
        i == IF dots = {} THEN 0 ELSE SetMax(dots)
    IN  IF 1 < i /\ i < Len(name) THEN SubSeq(name, i, Len(name)) ELSE <<>>

\* PurePath.relative_to(PROJECT_ROOT).as_posix() of a path below the root.
as_posix(path) == join(<<47>>, path)

\* bytes.decode("utf-8", errors="ignore") for bytes that are ASCII or 0xFF:
\* an ASCII byte is its code point, 0xFF starts no UTF-8 sequence and is dropped.
RECURSIVE decode(_)
decode(bytes) ==
    IF bytes = <<>> THEN <<>>
    ELSE IF Head(bytes) < 128 THEN <<Head(bytes)>> \o decode(Tail(bytes))
    ELSE decode(Tail(bytes))

\* Text mode with newline=None: "\r\n" and "\r" are read as "\n".
RECURSIVE universal_newlines(_)
universal_newlines(s) ==
    IF s = <<>> THEN <<>>
    ELSE IF Head(s) = 13
         THEN IF Len(s) >= 2 /\ s[2] = 10
              THEN <<10>> \o universal_newlines(Tail(Tail(s)))
              ELSE <<10>> \o universal_newlines(Tail(s))
    ELSE <<Head(s)>> \o universal_newlines(Tail(s))

\* open(filepath, "r", encoding="utf-8", errors="ignore").read()
read_text(bytes) == universal_newlines(decode(bytes))

\* Optional[str]
None == [some |-> FALSE, val |-> <<>>]
Some(t) == [some |-> TRUE, val |-> t]

-----------------------------------------------------------------------------
(* Configuration.                                                          *)

OUTPUT_FILENAME == S("full_project_source.txt")

EXCLUDE_DIRS_EXACT ==
    {S(".git"), S("__pycache__"), S("cache"), S("output"), S(".vscode"),
     S(".idea"), S("venv"), S(".venv"), S("env"), S("build"), S("dist"),
     S("logs"), S("data"), S("renv")}

EXCLUDE_DIRS_PATTERNS == <<S(".egg-info")>>

EXCLUDE_EXTS ==
    {S(".pyc"), S(".pyo"), S(".so"), S(".dll"), S(".exe"), S(".png"),
     S(".jpg"), S(".jpeg"), S(".gif"), S(".ico"), S(".svg"), S(".parquet"),
     S(".arrow"), S(".feather"), S(".csv"), S(".zip"), S(".gz"), S(".tar"),
     S(".rar"), S(".7z"), S(".db"), S(".sqlite3"), S(".pdf"), S(".docx"),
     S(".xlsx")}

EXCLUDE_FILES ==
    {OUTPUT_FILENAME, S("full_code_text.txt"), S(".DS_Store"), S("Thumbs.db"),
     S(".env"), S("notebook.html")}

\* f.read(1024) in is_likely_text_file
SNIFF_BYTES == 1024

-----------------------------------------------------------------------------
(* Files and parsed JSON documents.                                        *)

\* A JSON value as json.load returns it; JInvalid stands for a file on which
\* json.load raises (bytes that are not UTF-8, text that is not JSON).
JStr(t) == [j |-> "str", v |-> t]
JNum(n) == [j |-> "num", v |-> n]
JList(xs) == [j |-> "list", v |-> xs]
JObj(f) == [j |-> "obj", v |-> f]
JNull == [j |-> "null", v |-> <<>>]
JInvalid == [j |-> "invalid", v |-> <<>>]

\* The literals of lines 98-101 and 163.
LabelStart == S("# --- ")
LabelCell == S(" Cell ")
LabelEnd == S(" ---")
CodeType == JStr(S("code"))
MarkdownType == JStr(S("markdown"))
CodeLabel == S("Code")
MarkdownLabel == S("Markdown")
NotebookExt == S(".ipynb")
NoneText == S("None")
DictText == S("{}")

\* A file: its bytes and what json.load makes of them.
File(bytes, json) == [bytes |-> bytes, json |-> json]

\* dict.get(key, default)
Get(obj, key, default) ==
    IF key \in DOMAIN obj.v THEN obj.v[key] ELSE default

\* str(x) of a value that is no list.
PyStr(x) ==
    CASE x.j = "str" -> x.v
      [] x.j = "num" -> Dec(x.v)
      [] x.j = "null" -> NoneText
      [] OTHER -> DictText

-----------------------------------------------------------------------------
(* process_notebook                                                        *)

\* Lines 87-93: the source of a cell as one string; exc when "".join raises.
cell_source(cell) ==
    LET source_list == Get(cell, "source", JList(<<>>))
    IN  IF source_list.j = "list"
        THEN IF \A k \in DOMAIN source_list.v : source_list.v[k].j = "str"
             THEN [exc |-> FALSE,
                   val |-> join(<<>>, [k \in DOMAIN source_list.v |->
                                          source_list.v[k].v])]
             ELSE [exc |-> TRUE, val |-> <<>>]
        ELSE [exc |-> FALSE, val |-> PyStr(source_list)]

\* Lines 99 and 101: the labeled block of a cell.
cell_block(kind, number, source) ==
    LabelStart \o kind \o LabelCell \o Dec(number) \o LabelEnd \o <<10>>
        \o source \o <<10>>

\* Mutant of cell_number: the blocks are numbered, not the cells.
cell_number_of_block(i, content_parts) == Len(content_parts) + 1

\* The number shown in the label of the cell at index i of enumerate(),
\* content_parts holding the blocks appended so far.
cell_number(i, content_parts) == i + 1

\* Lines 85-101: the loop over the cells from position k on (k = i + 1).
RECURSIVE cells_loop(_, _, _)
cells_loop(cells, k, content_parts) ==
    IF k > Len(cells) THEN [exc |-> FALSE, content_parts |-> content_parts]
    ELSE
      LET cell == cells[k] IN
      IF cell.j # "obj" THEN [exc |-> TRUE, content_parts |-> content_parts]
      ELSE
        LET cell_type == Get(cell, "cell_type", JNull)
            src == cell_source(cell)
            number == cell_number(k - 1, content_parts)
        IN  IF src.exc THEN [exc |-> TRUE, content_parts |-> content_parts]
            ELSE IF strip(src.val) = <<>>
                 THEN cells_loop(cells, k + 1, content_parts)
            ELSE IF cell_type = CodeType
                 THEN cells_loop(cells, k + 1,
                        Append(content_parts,
                               cell_block(CodeLabel, number, src.val)))
            ELSE IF cell_type = MarkdownType
                 THEN cells_loop(cells, k + 1,
                        Append(content_parts,
                               cell_block(MarkdownLabel, number, src.val)))
            ELSE cells_loop(cells, k + 1, content_parts)

\* What iterating over notebook.get("cells", []) yields; exc when the value
\* cannot be iterated.  A str yields its characters, a dict its keys: both are
\* str, on which cell.get raises.
cells_of(notebook) ==
    LET cells == Get(notebook, "cells", JList(<<>>))
    IN  CASE cells.j = "list" -> [exc |-> FALSE, val |-> cells.v]
          [] cells.j = "str" ->
                [exc |-> FALSE, val |-> [k \in DOMAIN cells.v |-> JStr(<<cells.v[k]>>)]]
          [] cells.j = "obj" /\ DOMAIN cells.v = {} -> [exc |-> FALSE, val |-> <<>>]
          [] OTHER -> [exc |-> TRUE, val |-> <<>>]

\* process_notebook(filepath): the value returned, the blocks it was joined
\* from, whether open() was called and whether the warning was printed;
\* openOk is whether open(filepath, "r") succeeds.
process_notebook(file, openOk) ==
    LET failed == [ret |-> None, content_parts |-> <<>>,
                   opened |-> TRUE, warned |-> TRUE]
    IN  IF ~openOk THEN failed
        ELSE IF file.json.j = "invalid" THEN failed
        ELSE IF file.json.j # "obj" THEN failed
        ELSE LET cells == cells_of(file.json) IN
             IF cells.exc THEN failed
             ELSE LET loop == cells_loop(cells.val, 1, <<>>) IN
                  IF loop.exc THEN failed
                  ELSE [ret |-> Some(join(<<10>>, loop.content_parts)),
                        content_parts |-> loop.content_parts,
                        opened |-> TRUE, warned |-> FALSE]

-----------------------------------------------------------------------------
(* is_likely_text_file                                                     *)

\* Mutant of read_bytes: the whole file is read.
read_bytes_whole(bytes, n) == bytes

\* f.read(n) on a freshly opened binary file.
read_bytes(bytes, n) ==
    SubSeq(bytes, 1, IF Len(bytes) < n THEN Len(bytes) ELSE n)

\* is_likely_text_file(filepath): the value returned and whether open() was
\* called; openOk is whether open(filepath, "rb") and f.read succeed, an
\* IOError of either being caught at line 119.
is_likely_text_file(name, file, openOk) ==
    IF lower(suffix(name)) \in EXCLUDE_EXTS
    THEN [ret |-> FALSE, opened |-> FALSE]
    ELSE IF ~openOk THEN [ret |-> FALSE, opened |-> TRUE]
    ELSE [ret |-> 0 \notin Range(read_bytes(file.bytes, SNIFF_BYTES)),
          opened |-> TRUE]

-----------------------------------------------------------------------------
(* The project tree and os.walk.                                           *)

IsPrefix(d, p) == Len(d) <= Len(p) /\ SubSeq(p, 1, Len(d)) = d

\* The names os.scandir(d) reports as directories and as files.
subdirs_of(tree, d) ==
    {p[Len(d) + 1] : p \in {q \in DOMAIN tree : Len(q) > Len(d) + 1 /\ IsPrefix(d, q)}}
files_of(tree, d) ==
    {p[Len(d) + 1] : p \in {q \in DOMAIN tree : Len(q) = Len(d) + 1 /\ IsPrefix(d, q)}}

\* The orders in which the operating system may enumerate a set of names.
Orderings(X) == {s \in [1..Cardinality(X) -> X] : Range(s) = X}

\* Mutant of prune: the suffix patterns are not applied.
prune_exact_only(dirnames) ==
    SelectSeq(dirnames, LAMBDA d : d \notin EXCLUDE_DIRS_EXACT)

\* Lines 146-151: the directory names os.walk is left to descend into.
prune(dirnames) ==
    SelectSeq(dirnames,
        LAMBDA d : /\ d \notin EXCLUDE_DIRS_EXACT
                   /\ ~ \E k \in DOMAIN EXCLUDE_DIRS_PATTERNS :
                          endswith(d, EXCLUDE_DIRS_PATTERNS[k]))

\* Line 153: the order in which the file names of one directory are iterated.
iteration_order(filenames) == sorted(filenames)

\* os.walk(top-down): the directories pushed for the names left in dirnames
\* are visited in the order of that list, before the rest of the stack.
push_dirs(top, dirnames, rest) ==
    [k \in DOMAIN dirnames |-> Append(top, dirnames[k])] \o rest

-----------------------------------------------------------------------------
(* combine_project_files: one file of the loop of line 153.                *)

\* The chunk one successful outfile.write(text) adds to the stream; kind and
\* path name the write statement and the file it is made for.
Chunk(kind, path, text) == [kind |-> kind, path |-> path, text |-> text]

HeaderChunk1 ==
    Chunk("header", <<>>, S("--- Project Source Code Archive ---") \o <<10, 10>>)
HeaderChunk2 ==
    Chunk("header", <<>>,
        S("This file contains the concatenated source code of the project, with each file wrapped in tags indicating its relative path.")
            \o <<10, 10>>)

open_tag(rel) == <<60>> \o rel \o <<62, 10>>
close_tag(rel) == <<10, 60, 47>> \o rel \o <<62, 10, 10>>

\* A printed line: its kind and the relative path it names.
Line(kind, path) == [kind |-> kind, path |-> path]

\* What the environment does to the I/O of one file: whether the first open
\* of the file succeeds (line 81 or 117), whether the open of line 169
\* succeeds, and which of the writes of lines 183-185 raises (0: none).
IoOutcomes == [open1 : BOOLEAN, open2 : BOOLEAN, wfail : 0..3]
IoOk == [open1 |-> TRUE, open2 |-> TRUE, wfail |-> 0]

\* What one iteration does: the chunks written, the lines printed, the
\* increments of the two counters, the files open() was called on, the I/O
\* operations that raised, and whether an exception leaves the loop.
Effect(writes, prints, processed, skipped, opened, failed) ==
    [writes |-> writes, prints |-> prints, processed |-> processed,
     skipped |-> skipped, opened |-> opened, failed |-> failed,
     raised |-> FALSE]

\* Line 182: content and content.strip()
has_content(content) ==
    content.some /\ content.val # <<>> /\ strip(content.val) # <<>>

\* Mutant of on_file_exception: no handler, the exception leaves the loop.
on_file_exception_uncaught(path, writes, prints, opened, failed) ==
    [Effect(writes, prints, 0, 0, opened, failed) EXCEPT !.raised = TRUE]

\* Mutant of on_file_exception: the handler does not count the file.
on_file_exception_uncounted(path, writes, prints, opened, failed) ==
    Effect(writes, Append(prints, Line("error_read", path)), 0, 0, opened, failed)

\* Lines 193-197: the handler of an exception raised inside the try of line
\* 161, after the chunks in writes were written.
on_file_exception(path, writes, prints, opened, failed) ==
    Effect(writes, Append(prints, Line("error_read", path)), 0, 1, opened, failed)

\* Mutant of section_body: the content is written as read.
section_body_unstripped(content) == content.val

\* Line 184: the body of a section.
section_body(content) == strip(content.val)

\* Lines 182-191: the section of a file, or the no-content skip.
write_section(path, content, io, prints, opened, failed) ==
    LET rel == as_posix(path)
        w1 == Chunk("open", path, open_tag(rel))
        w2 == Chunk("body", path, section_body(content))
        w3 == Chunk("close", path, close_tag(rel))
        wf == failed \cup {[op |-> "write", path |-> path]}
    IN  IF has_content(content)
        THEN CASE io.wfail = 1 -> on_file_exception(path, <<>>, prints, opened, wf)
               [] io.wfail = 2 -> on_file_exception(path, <<w1>>, prints, opened, wf)
               [] io.wfail = 3 -> on_file_exception(path, <<w1, w2>>, prints, opened, wf)
               [] OTHER -> Effect(<<w1, w2, w3>>, prints, 1, 0, opened, failed)
        ELSE Effect(<<>>, Append(prints, Line("info_no_content", path)), 0, 1,
                    opened, failed)

\* Lines 154-197: the body of the loop for the file at path.
handle_file(path, file, io) ==
    LET filename == path[Len(path)]
        inFail == {[op |-> "open_in", path |-> path]}
    IN  IF filename \in EXCLUDE_FILES
        THEN Effect(<<>>, <<>>, 0, 0, {}, {})
        ELSE IF lower(suffix(filename)) = NotebookExt
        THEN LET nb == process_notebook(file, io.open1)
                 prints == <<Line("processing_notebook", path)>>
                             \o (IF nb.warned THEN <<Line("warn_notebook", path)>>
                                 ELSE <<>>)
             IN  write_section(path, nb.ret, io, prints, {path},
                               IF io.open1 THEN {} ELSE inFail)
        ELSE LET txt == is_likely_text_file(filename, file, io.open1)
                 opened == IF txt.opened THEN {path} ELSE {}
                 failed1 == IF txt.opened /\ ~io.open1 THEN inFail ELSE {}
             IN  IF txt.ret
                 THEN LET prints == <<Line("processing_text", path)>>
                      IN  IF io.open2
                          THEN write_section(path, Some(read_text(file.bytes)),
                                             io, prints, {path}, {})
                          ELSE on_file_exception(path, <<>>, prints, {path}, inFail)
                 ELSE Effect(<<>>, <<Line("skip_binary", path)>>, 0, 1,
                             opened, failed1)

\* The failures an outcome asks for.
asked(io) ==
    (IF io.open1 THEN 0 ELSE 1) + (IF io.open2 THEN 0 ELSE 1)
        + (IF io.wfail = 0 THEN 0 ELSE 1)

-----------------------------------------------------------------------------
(* The project trees the runs start from.                                  *)

Plain(str) == File(S(str), JInvalid)
Cell(cell_type, source) == JObj([cell_type |-> cell_type, source |-> source])
Notebook(cells) == File(S("{}"), JObj([cells |-> JList(cells)]))

\* One code cell, one markdown cell given as fragments, one cell without
\* source and one raw cell.
NotebookMixed ==
    Notebook(<<Cell(JStr(S("code")), JStr(S("x=1"))),
               JObj([cell_type |-> JStr(S("code")), outputs |-> JList(<<>>)]),
               Cell(JStr(S("raw")), JStr(S("r"))),
               Cell(JStr(S("markdown")), JList(<<JStr(S("# t") \o <<10>>), JStr(S("b"))>>))>>)

\* A file name and the file under it.
FileChoices ==
    { <<S("a.py"), File(<<32>> \o S("x = 1") \o <<13, 10>> \o S("y") \o <<10>>, JInvalid)>>,
      <<S("blank.txt"), File(<<32, 10, 9>>, JInvalid)>>,
      <<S("empty.txt"), File(<<>>, JInvalid)>>,
      <<S("z.dat"), File(<<120, 0, 121>>, JInvalid)>>,
      <<S("u.md"), File(<<255, 104, 105>>, JInvalid)>>,
      <<S("t.csv"), Plain("a,b")>>,
      <<S("P.PNG"), File(<<255, 0, 80>>, JInvalid)>>,
      <<S(".env"), Plain("K=V")>>,
      <<S("n.ipynb"), NotebookMixed>>,
      <<S("E.IPYNB"), Notebook(<<Cell(JStr(S("raw")), JStr(S("r")))>>)>>,
      <<S("bad.ipynb"), File(S("{"), JInvalid)>>,
      <<S("odd.ipynb"), File(S("[]"), JList(<<>>))>> }

TreeOf(entries) ==
    [p \in {e[1] : e \in entries} |-> (CHOOSE e \in entries : e[1] = p)[2]]

\* Up to MaxFiles files of FileChoices in the root directory.
FlatTrees ==
    { TreeOf({<<<<c[1]>>, c[2]>> : c \in X}) :
        X \in {Y \in SUBSET FileChoices : Cardinality(Y) \in 1..MaxFiles} }

DirChoices == {S("src"), S("data"), S("pkg.egg-info"), S("Dist")}

RECURSIVE Chains(_)
Chains(n) ==
    IF n = 0 THEN {<<>>}
    ELSE {<<>>} \cup {<<d>> \o c : d \in DirChoices, c \in Chains(n - 1)}

\* A chain of nested directories of depth up to MaxDepth with one file in
\* every directory of the chain.
DeepTrees ==
    { TreeOf({<<SubSeq(c, 1, k) \o <<S("a.py")>>, Plain("x")>> : k \in 0..Len(c)}) :
        c \in Chains(MaxDepth) \ {<<>>} }

\* Two sibling directories with one file each, and two files in the root.
SiblingTrees ==
    { TreeOf({<<<<d, S("a.py")>>, Plain("x")>> : d \in D}
             \cup {<<<<f>>, Plain("y")>> : f \in {S("m.py"), S("K.PY")}}) :
        D \in {E \in SUBSET {S("b"), S("a"), S("C")} : Cardinality(E) = 2} }

Trees == FlatTrees \cup DeepTrees \cup SiblingTrees

-----------------------------------------------------------------------------
(* combine_project_files                                                   *)

NoHist ==
    [yielded |-> <<>>, walked |-> <<>>, orders |-> <<>>, opened |-> {},
     failed |-> {}, handled |-> 0]

\* open(output_filepath, "w") creates or truncates the output file.
create_output(tree) ==
    [p \in DOMAIN tree \cup {<<OUTPUT_FILENAME>>} |->
        IF p = <<OUTPUT_FILENAME>> THEN File(<<>>, JInvalid) ELSE tree[p]]

Idle == input = <<>> /\ result = <<>>

Init ==
    /\ fs \in Trees
    /\ pc = "start"
    /\ run = 1
    /\ stack = <<>>
    /\ dirpath = <<>>
    /\ todo = <<>>
    /\ outfile = <<>>
    /\ log = <<>>
    /\ files_processed_count = 0
    /\ files_skipped_count = 0
    /\ faults = 0
    /\ hist = NoHist
    /\ prev = <<>>
    /\ Idle

\* Lines 127-141: the output file is opened and the two header lines are
\* written; any of the three may raise IOError, caught at line 204.
Begin ==
    /\ pc = "start"
    /\ \E outcome \in {"ok", "open_out", "write1", "write2"} :
        /\ outcome # "ok" => faults < MaxFaults
        /\ faults' = faults + (IF outcome = "ok" THEN 0 ELSE 1)
        /\ fs' = IF outcome = "open_out" THEN fs ELSE create_output(fs)
        /\ outfile' = CASE outcome = "ok" -> <<HeaderChunk1, HeaderChunk2>>
                        [] outcome = "write2" -> <<HeaderChunk1>>
                        [] OTHER -> <<>>
        /\ log' = <<Line("banner", <<>>)>>
                    \o (IF outcome = "ok" THEN <<>> ELSE <<Line("fatal_io", <<>>)>>)
        /\ pc' = IF outcome = "ok" THEN "walk" ELSE "aborted"
        /\ stack' = IF outcome = "ok" THEN << <<>> >> ELSE <<>>
        /\ hist' = IF outcome = "ok" THEN hist
                   ELSE [hist EXCEPT !.failed =
                            @ \cup {[op |-> outcome, path |-> <<OUTPUT_FILENAME>>]}]
    /\ UNCHANGED <<run, dirpath, todo, files_processed_count,
                   files_skipped_count, prev, input, result>>

\* Lines 142-153: os.walk yields the next directory, dirnames is pruned in
\* place and the file names are sorted.
WalkDir ==
    /\ pc = "walk"
    /\ todo = <<>>
    /\ stack # <<>>
    /\ LET top == Head(stack) IN
       \E dirnames \in Orderings(subdirs_of(fs, top)),
          filenames \in Orderings(files_of(fs, top)) :
            /\ stack' = push_dirs(top, prune(dirnames), Tail(stack))
            /\ dirpath' = top
            /\ todo' = iteration_order(filenames)
            /\ hist' = [hist EXCEPT !.walked = Append(@, top),
                                    !.orders = Append(@, dirnames)]
    /\ UNCHANGED <<fs, pc, run, outfile, log, files_processed_count,
                   files_skipped_count, faults, prev, input, result>>

\* Lines 153-197: one iteration of the loop over the file names.  An
\* exception that left the loop would be caught at line 204 or 206.
ProcessFile ==
    /\ pc = "walk"
    /\ todo # <<>>
    /\ LET path == Append(dirpath, Head(todo)) IN
       \E io \in IoOutcomes :
         LET e == handle_file(path, fs[path], io) IN
            /\ Cardinality(e.failed) = asked(io)
            /\ faults + asked(io) <= MaxFaults
            /\ faults' = faults + asked(io)
            /\ outfile' = outfile \o e.writes
            /\ log' = log \o e.prints
                        \o (IF e.raised THEN <<Line("fatal_io", <<>>)>> ELSE <<>>)
            /\ pc' = IF e.raised THEN "aborted" ELSE pc
            /\ files_processed_count' = files_processed_count + e.processed
            /\ files_skipped_count' = files_skipped_count + e.skipped
            /\ hist' = [hist EXCEPT
                          !.yielded = Append(@, path),
                          !.opened = @ \cup e.opened,
                          !.failed = @ \cup e.failed,
                          !.handled = @ + (IF Head(todo) \in EXCLUDE_FILES
                                           THEN 0 ELSE 1)]
    /\ todo' = Tail(todo)
    /\ UNCHANGED <<fs, run, stack, dirpath, prev, input, result>>

\* Lines 199-207: the walk is over; the with block closes the output file,
\* which raises IOError when the final flush fails, and the summary is
\* printed otherwise.
Finish ==
    /\ pc = "walk"
    /\ todo = <<>>
    /\ stack = <<>>
    /\ \E closeOk \in BOOLEAN :
        /\ ~closeOk => faults < MaxFaults
        /\ faults' = faults + (IF closeOk THEN 0 ELSE 1)
        /\ pc' = IF closeOk THEN "done" ELSE "aborted"
        /\ log' = Append(log, IF closeOk THEN Line("summary", <<>>)
                               ELSE Line("fatal_io", <<>>))
        /\ hist' = IF closeOk THEN hist
                   ELSE [hist EXCEPT !.failed =
                            @ \cup {[op |-> "close_out", path |-> <<OUTPUT_FILENAME>>]}]
    /\ UNCHANGED <<fs, run, stack, dirpath, todo, outfile,
                   files_processed_count, files_skipped_count, prev,
                   input, result>>

\* The paths of the sections of an output, in the order of the stream.
RECURSIVE section_paths(_)
section_paths(out) ==
    IF out = <<>> THEN <<>>
    ELSE IF Head(out).kind = "open"
         THEN <<Head(out).path>> \o section_paths(Tail(out))
         ELSE section_paths(Tail(out))

\* Lines 210-211: the tool is invoked again on the tree the previous
\* invocation left.
Rerun ==
    /\ pc \in {"done", "aborted"}
    /\ run < MaxRuns
    /\ prev' = Append(prev, [sections |-> section_paths(outfile),
                             clean |-> pc = "done" /\ hist.failed = {},
                             orders |-> hist.orders])
    /\ run' = run + 1
    /\ pc' = "start"
    /\ stack' = <<>>
    /\ dirpath' = <<>>
    /\ todo' = <<>>
    /\ outfile' = <<>>
    /\ log' = <<>>
    /\ files_processed_count' = 0
    /\ files_skipped_count' = 0
    /\ hist' = NoHist
    /\ UNCHANGED <<fs, faults, input, result>>

Next == Begin \/ WalkDir \/ ProcessFile \/ Finish \/ Rerun

Spec == Init /\ [][Next]_vars

-----------------------------------------------------------------------------
(* process_notebook and is_likely_text_file exercised on their own.        *)

\* The run does not take place.
NoRun ==
    /\ fs = <<>>
    /\ pc = "idle"
    /\ run = 0
    /\ stack = <<>>
    /\ dirpath = <<>>
    /\ todo = <<>>
    /\ outfile = <<>>
    /\ log = <<>>
    /\ files_processed_count = 0
    /\ files_skipped_count = 0
    /\ faults = 0
    /\ hist = NoHist
    /\ prev = <<>>

CellTypeChoices == {"code", "markdown", "raw", "missing"}
SourceChoices ==
    { <<"str", JStr(S("x=1"))>>,
      <<"blank", JStr(<<32, 10>>)>>,
      <<"fragments", JList(<<JStr(S("a") \o <<10>>), JStr(S(" b"))>>)>>,
      <<"null", JNull>> }

\* A cell of a notebook: an object with or without the keys cell_type and source.
CellOf(type, src) ==
    JObj(CASE type = "missing" /\ src[1] = "missing" -> [outputs |-> JList(<<>>)]
           [] type = "missing" -> [source |-> src[2]]
           [] src[1] = "missing" -> [cell_type |-> JStr(S(type))]
           [] OTHER -> [cell_type |-> JStr(S(type)), source |-> src[2]])

CellChoices ==
    {CellOf(type, src) : type \in CellTypeChoices, src \in SourceChoices}
        \cup {CellOf("missing", <<"missing", JNull>>),
              CellOf("code", <<"missing", JNull>>)}

RECURSIVE SeqsUpTo(_, _)
SeqsUpTo(X, n) ==
    IF n = 0 THEN {<<>>}
    ELSE {<<>>} \cup {<<x>> \o s : x \in X, s \in SeqsUpTo(X, n - 1)}

\* Nine cells without text, so that the cells after them have two-digit numbers.
NinePadding == [k \in 1..9 |-> CellOf("code", <<"blank", JStr(<<>>)>>)]

\* Notebooks of cells: up to MaxCells cells, alone or after the padding.
WellFormedNotebooks ==
    { JObj([cells |-> JList(pad \o cells)]) :
        pad \in {<<>>, NinePadding}, cells \in SeqsUpTo(CellChoices, MaxCells) }

\* Documents that json.load rejects or that have another shape.
OtherDocuments ==
    { JInvalid, JList(<<>>), JStr(S("cells")), JNull, JObj(<<>>),
      JObj([cells |-> JNull]), JObj([cells |-> JNum(3)]),
      JObj([cells |-> JStr(S("ab"))]), JObj([cells |-> JStr(<<>>)]),
      JObj([cells |-> JObj(<<>>)]),
      JObj([cells |-> JList(<<JStr(S("x"))>>)]),
      JObj([cells |-> JList(<<CellOf("code", <<"str", JStr(S("x=1"))>>),
                              JObj([cell_type |-> JStr(S("code")),
                                    source |-> JList(<<JStr(S("a")), JNum(1)>>)])>>)]),
      JObj([cells |-> JList(<<JObj([cell_type |-> JStr(S("code")),
                                    source |-> JNum(42)])>>)]) }

InitNotebook ==
    /\ NoRun
    /\ input \in [json : WellFormedNotebooks, openOk : {TRUE}]
                    \cup [json : OtherDocuments, openOk : BOOLEAN]
    /\ result = <<>>

CallProcessNotebook ==
    /\ pc = "idle"
    /\ result = <<>>
    /\ "json" \in DOMAIN input
    /\ result' = <<process_notebook(File(<<>>, input.json), input.openOk)>>
    /\ UNCHANGED <<runVars, input>>

SpecNotebook == InitNotebook /\ [][CallProcessNotebook]_vars

NameChoices ==
    { S("a.py"), S("a.png"), S("A.PNG"), S("t.Csv"), S("x.tar.gz"),
      S("README"), S(".gz"), S("a.pyc.txt"), S("db."), S("a.sqlite3") }

\* A file of n bytes whose bytes at the offsets zeros are null.
BytesOf(n, zeros) == [k \in 1..n |-> IF k - 1 \in zeros THEN 0 ELSE 120]

SizeChoices == {0, 1, SNIFF_BYTES - 1, SNIFF_BYTES, SNIFF_BYTES + 1}
ZeroChoices ==
    { {}, {0}, {SNIFF_BYTES - 2}, {SNIFF_BYTES - 1}, {SNIFF_BYTES},
      {0, SNIFF_BYTES}, {SNIFF_BYTES - 1, SNIFF_BYTES} }

InitClassifier ==
    /\ NoRun
    /\ input \in { [name |-> name, bytes |-> BytesOf(n, zeros), openOk |-> ok] :
                     name \in NameChoices, n \in SizeChoices,
                     zeros \in ZeroChoices, ok \in BOOLEAN }
    /\ result = <<>>

CallIsLikelyTextFile ==
    /\ pc = "idle"
    /\ result = <<>>
    /\ "name" \in DOMAIN input
    /\ result' = <<is_likely_text_file(input.name, File(input.bytes, JInvalid),
                                       input.openOk)>>
    /\ UNCHANGED <<runVars, input>>

SpecClassifier == InitClassifier /\ [][CallIsLikelyTextFile]_vars

-----------------------------------------------------------------------------
(* Vocabulary of the properties.                                           *)

ExcludedDirName(d) ==
    \/ d \in EXCLUDE_DIRS_EXACT
    \/ \E k \in DOMAIN EXCLUDE_DIRS_PATTERNS : endswith(d, EXCLUDE_DIRS_PATTERNS[k])

\* The file at p lies beneath a directory with an excluded name.
BeneathExcluded(p) == \E k \in 1..(Len(p) - 1) : ExcludedDirName(p[k])

NameOf(p) == p[Len(p)]
ParentOf(p) == SubSeq(p, 1, Len(p) - 1)

\* The paths the run has iterated, opened, written or printed.
TouchedPaths ==
    Range(hist.yielded) \cup hist.opened
        \cup {outfile[i].path : i \in {k \in DOMAIN outfile : outfile[k].kind # "header"}}
        \cup {log[i].path : i \in {k \in DOMAIN log : log[k].path # <<>>}}

\* A section starts at chunk i and is complete: opening tag, body, closing
\* tag of the same relative path.
CompleteAt(i) ==
    /\ outfile[i].kind = "open"
    /\ i + 2 <= Len(outfile)
    /\ outfile[i + 1].kind = "body"
    /\ outfile[i + 2].kind = "close"
    /\ outfile[i].text = <<60>> \o as_posix(outfile[i].path) \o <<62, 10>>
    /\ outfile[i + 2].text = <<10, 60, 47>> \o as_posix(outfile[i].path) \o <<62, 10, 10>>

SectionStarts(p) ==
    {i \in DOMAIN outfile : outfile[i].kind = "open" /\ outfile[i].path = p}
CompleteSections == {i \in DOMAIN outfile : CompleteAt(i)}
HasCompleteSection(p) == \E i \in SectionStarts(p) : CompleteAt(i)

SkipKinds == {"skip_excluded_name", "skip_binary", "info_no_content", "error_read"}
HasSkipLine(p) ==
    \E i \in DOMAIN log : log[i].path = p /\ log[i].kind \in SkipKinds

OutputOps == {"open_out", "write1", "write2", "write", "close_out"}
OutputFailed == \E f \in hist.failed : f.op \in OutputOps
AnyFailureOn(p) == \E f \in hist.failed : f.path = p

\* Reading or extracting the file at p failed.
InputFailed(p) ==
    \/ [op |-> "open_in", path |-> p] \in hist.failed
    \/ \E i \in DOMAIN log : log[i] = Line("warn_notebook", p)

\* The files of the tree the loop of line 153 has to handle.
Candidates ==
    {p \in DOMAIN fs : ~BeneathExcluded(p) /\ NameOf(p) \notin EXCLUDE_FILES}

\* The text a file yields when all its I/O succeeds.
TextOf(p) ==
    IF lower(suffix(NameOf(p))) = NotebookExt
    THEN process_notebook(fs[p], TRUE).ret
    ELSE IF is_likely_text_file(NameOf(p), fs[p], TRUE).ret
         THEN Some(read_text(fs[p].bytes))
         ELSE None
HasText(p) == TextOf(p).some /\ strip(TextOf(p).val) # <<>>

\* The walk has visited the whole tree.
WalkOver ==
    \/ pc = "done"
    \/ pc = "aborted" /\ \E f \in hist.failed : f.op = "close_out"

-----------------------------------------------------------------------------
(* C1: no file beneath a directory whose name is in the exact-exclusion    *)
(* set or ends with an excluded suffix is ever iterated, opened, printed   *)
(* or written, at whatever depth, and no such directory is walked.         *)
C1_NoDescent ==
    /\ \A p \in TouchedPaths : ~BeneathExcluded(p)
    /\ \A d \in Range(hist.walked) : \A k \in DOMAIN d : ~ExcludedDirName(d[k])

\* A finished run over a tree with a file in a suffix-excluded directory
\* below a directory that was walked.
C1_Witness ==
    /\ pc = "done"
    /\ \E p \in DOMAIN fs :
        /\ Len(p) = 3
        /\ ~ExcludedDirName(p[1])
        /\ endswith(p[2], EXCLUDE_DIRS_PATTERNS[1])
        /\ <<p[1]>> \in Range(hist.walked)
        /\ <<p[1], NameOf(p)>> \in Range(hist.yielded)

(* C2: a failure while reading or extracting one file never aborts the     *)
(* run: the file is recorded as skipped and has no section, only an output *)
(* failure aborts, and when the walk is over every candidate file was      *)
(* visited and every one with non-blank text and no failure has a section. *)
C2_FileFailureNotFatal ==
    /\ \A p \in Range(hist.yielded) :
          InputFailed(p) => HasSkipLine(p) /\ SectionStarts(p) = {}
    /\ files_skipped_count >= Cardinality({p \in Range(hist.yielded) : InputFailed(p)})
    /\ pc = "aborted" => OutputFailed
    /\ WalkOver =>
          \A c \in Candidates :
              /\ c \in Range(hist.yielded)
              /\ HasText(c) /\ ~AnyFailureOn(c) => HasCompleteSection(c)

\* A finished run in which a file failed and a later file has its section.
C2_Witness ==
    /\ pc = "done"
    /\ \E i, j \in DOMAIN hist.yielded :
        /\ i < j
        /\ InputFailed(hist.yielded[i])
        /\ HasCompleteSection(hist.yielded[j])

(* C3: every file the walker yields that does not end up as a section has  *)
(* a log line with a reason category, the files with an excluded name      *)
(* included.                                                               *)
C3_EverySkipLogged ==
    \A p \in Range(hist.yielded) : HasCompleteSection(p) \/ HasSkipLine(p)

(* C4: when a run has ended, however it ended, every opening tag in the    *)
(* output is followed by the content and the closing tag of the same path. *)
C4_TagsMatch ==
    pc \in {"done", "aborted"} =>
        \A i \in DOMAIN outfile : outfile[i].kind = "open" => CompleteAt(i)

(* C5: a failure to create or to write the output file is fatal: the run   *)
(* is aborted with a fatal message and the failure is never turned into a  *)
(* skip after which the traversal goes on.                                 *)
C5_OutputFailureFatal ==
    OutputFailed => pc = "aborted" /\ log[Len(log)].kind = "fatal_io"

(* C6: two runs over the same tree write the sections in the same order,   *)
(* whatever the order in which the operating system enumerates file and    *)
(* directory names, and the sections of one directory are in               *)
(* lexicographic order of file name.                                       *)
C6_SameOrder ==
    /\ \A i, j \in DOMAIN outfile :
          /\ i < j
          /\ outfile[i].kind = "open"
          /\ outfile[j].kind = "open"
          /\ ParentOf(outfile[i].path) = ParentOf(outfile[j].path)
          => StrLess(NameOf(outfile[i].path), NameOf(outfile[j].path))
    /\ (run >= 2 /\ pc = "done" /\ hist.failed = {} /\ prev[run - 1].clean)
          => section_paths(outfile) = prev[run - 1].sections

-----------------------------------------------------------------------------
(* C7: for a well-formed notebook, process_notebook returns one labeled    *)
(* block per code or markdown cell with non-blank source, in cell order,   *)
(* labeled with the 1-based position of the cell among all cells, and no   *)
(* block for any other cell.                                               *)
ExpectCode == S("# --- Code Cell ")
ExpectMarkdown == S("# --- Markdown Cell ")
ExpectEnd == S(" ---")
TypeCode == S("code")
TypeMarkdown == S("markdown")

WellFormed(doc) ==
    /\ doc.j = "obj"
    /\ "cells" \in DOMAIN doc.v
    /\ doc.v.cells.j = "list"
    /\ \A k \in DOMAIN doc.v.cells.v :
          /\ doc.v.cells.v[k].j = "obj"
          /\ ~cell_source(doc.v.cells.v[k]).exc

CellKind(cell) ==
    IF "cell_type" \in DOMAIN cell.v /\ cell.v.cell_type.j = "str"
    THEN cell.v.cell_type.v ELSE <<>>

C7_NotebookBlocks ==
    (result # <<>> /\ "json" \in DOMAIN input /\ input.openOk /\ WellFormed(input.json)) =>
        LET cells == input.json.v.cells.v
            text(k) == cell_source(cells[k]).val
            shown == {k \in DOMAIN cells :
                        /\ CellKind(cells[k]) \in {TypeCode, TypeMarkdown}
                        /\ strip(text(k)) # <<>>}
            N == Cardinality({k \in shown : CellKind(cells[k]) = TypeCode})
            M == Cardinality({k \in shown : CellKind(cells[k]) = TypeMarkdown})
            nth(b) == CHOOSE k \in shown : Cardinality({q \in shown : q < k}) = b - 1
            expected(k) ==
                (IF CellKind(cells[k]) = TypeCode THEN ExpectCode ELSE ExpectMarkdown)
                    \o Dec(k) \o ExpectEnd \o <<10>> \o text(k) \o <<10>>
            r == result[1]
        IN  /\ r.ret.some
            /\ Len(r.content_parts) = N + M
            /\ \A b \in DOMAIN r.content_parts : r.content_parts[b] = expected(nth(b))
            /\ r.ret.val = join(<<10>>, r.content_parts)

\* A notebook with a code block, a markdown block and a cell of another
\* kind, in which a block is numbered after a cell that has no block.
C7_Witness ==
    /\ result # <<>>
    /\ "json" \in DOMAIN input
    /\ input.openOk
    /\ WellFormed(input.json)
    /\ LET cells == input.json.v.cells.v
           r == result[1]
       IN  /\ Len(r.content_parts) = 2
           /\ Len(cells) = 12
           /\ CellKind(cells[10]) = TypeCode
           /\ CellKind(cells[11]) = S("raw")
           /\ CellKind(cells[12]) = TypeMarkdown

-----------------------------------------------------------------------------
(* C8: a plain text file with content C at relative path P, not beneath an *)
(* excluded directory, has exactly one section in the output of a run, and *)
(* its body is C without leading and trailing whitespace; no path delimits *)
(* more than one section.  The output file of the run itself is left out,  *)
(* and so are the runs in which an I/O operation failed.                   *)
IsPlainText(p) ==
    /\ lower(suffix(NameOf(p))) # NotebookExt
    /\ \A k \in DOMAIN fs[p].bytes : fs[p].bytes[k] \in 1..127

OneSectionWith(p, body) ==
    /\ Cardinality(SectionStarts(p)) = 1
    /\ \A i \in SectionStarts(p) : CompleteAt(i) /\ outfile[i + 1].text = body

C8_RoundTrip ==
    /\ \A p \in TouchedPaths : Cardinality(SectionStarts(p)) <= 1
    /\ (pc = "done" /\ hist.failed = {}) =>
          \A p \in DOMAIN fs :
              (IsPlainText(p) /\ ~BeneathExcluded(p) /\ p # <<OUTPUT_FILENAME>>)
              => OneSectionWith(p, strip(decode(fs[p].bytes)))

(* C8 as amended: the file is also required to have a name outside the     *)
(* excluded-file-name set, an extension outside the excluded-extension set *)
(* and text that is not blank, and no I/O on it or on its section to have  *)
(* failed; the body is the text as read in text mode ("\r\n" and "\r" read *)
(* as "\n"), without leading and trailing whitespace.                      *)
C8_RoundTripAmended ==
    /\ \A p \in TouchedPaths : Cardinality(SectionStarts(p)) <= 1
    /\ pc = "done" =>
          \A p \in DOMAIN fs :
              ( /\ IsPlainText(p)
                /\ ~BeneathExcluded(p)
                /\ NameOf(p) \notin EXCLUDE_FILES
                /\ lower(suffix(NameOf(p))) \notin EXCLUDE_EXTS
                /\ strip(read_text(fs[p].bytes)) # <<>>
                /\ ~AnyFailureOn(p) )
              => OneSectionWith(p, strip(read_text(fs[p].bytes)))

\* A finished run with the section of a plain text file whose text has
\* whitespace around it and a "\r\n" inside.
C8_Witness ==
    /\ pc = "done"
    /\ \E p \in DOMAIN fs :
        /\ IsPlainText(p)
        /\ HasCompleteSection(p)
        /\ 13 \in Range(fs[p].bytes)
        /\ strip(fs[p].bytes) # fs[p].bytes

-----------------------------------------------------------------------------
(* C9: is_likely_text_file returns false without opening the file when the *)
(* extension, compared case-insensitively, is excluded; otherwise true     *)
(* exactly when no null byte is among the first 1024 bytes, and false when *)
(* opening the file fails.                                                 *)
C9_Classifier ==
    (result # <<>> /\ "name" \in DOMAIN input) =>
        LET r == result[1]
            excluded == lower(suffix(input.name)) \in EXCLUDE_EXTS
            nulls == {k - 1 : k \in {q \in DOMAIN input.bytes : input.bytes[q] = 0}}
        IN  /\ excluded => ~r.ret /\ ~r.opened
            /\ (~excluded /\ ~input.openOk) => ~r.ret
            /\ (~excluded /\ input.openOk) =>
                  (r.ret <=> \A o \in nulls : o >= 1024)

\* A file accepted as text although it has a null byte, at offset 1024.
C9_Witness ==
    /\ result # <<>>
    /\ "name" \in DOMAIN input
    /\ result[1].ret
    /\ Len(input.bytes) = 1025
    /\ input.bytes[1025] = 0

-----------------------------------------------------------------------------
(* C10: the two counters add up to the number of files handled whose name  *)
(* is not excluded, each such file counting once in exactly one of them;   *)
(* the processed count is the number of complete sections of the output,   *)
(* and every section counted has a body that is not blank.                 *)
C10_Counters ==
    /\ files_processed_count + files_skipped_count = hist.handled
    /\ files_processed_count = Cardinality(CompleteSections)
    /\ files_skipped_count =
          Cardinality({i \in DOMAIN log : log[i].kind \in SkipKinds})
    /\ \A i \in CompleteSections :
          /\ outfile[i + 1].text # <<>>
          /\ strip(outfile[i + 1].text) = outfile[i + 1].text

\* A finished run with a processed file, a file skipped for an exception
\* raised by a write, and a file with an excluded name.
C10_Witness ==
    /\ pc = "done"
    /\ files_processed_count >= 1
    /\ files_skipped_count >= 1
    /\ \E f \in hist.failed : f.op = "write"
    /\ hist.handled < Len(hist.yielded)

====
